---- MODULE Spec2Model ----
(***************************************************************************)
(* Model of the labor-market dashboard: the Collector                      *)
(* (src/data_collection.py) builds labor_market_data.csv from one BLS API  *)
(* response, the Reporter (src/app.py) loads the file, derives three       *)
(* columns and renders headline metrics and chart panels.                  *)
(*                                                                         *)
(* A float is modelled as an exact ratio <<n, d>> with d > 0, extended     *)
(* with the IEEE-754 specials <<1, 0>> (inf), <<-1, 0>> (-inf) and         *)
(* <<0, 0>> (NaN, the missing value of pandas).  Rounding and the sign of  *)
(* zero are not modelled.                                                  *)
(*                                                                         *)
(* A DataFrame is a function from column names to columns, each column a   *)
(* sequence with one entry per row.                                        *)
(***************************************************************************)
EXTENDS Integers, Sequences, FiniteSets, TLC

VARIABLES pc, api, file, df, metrics, rendered

vars == <<pc, api, file, df, metrics, rendered>>

----------------------------------------------------------------------------
(* Bounds of the model *)

\* Collector: most series in one API response
MaxSeries == 2
\* Collector: most data points in one API response, over all its series
MaxPoints == 2
\* Reporter: most rows of a table whose ratio inputs vary freely
MaxRatioRows == 2
\* Reporter: most rows of a table whose headline column varies freely
MaxLen == 4
\* Reporter: most rows of a table whose Real Wages column is a monthly run
MaxRows == 14
\* Reporter: most rows of such a run that are replaced by a missing or zero value
MaxHoles == 2

----------------------------------------------------------------------------
(* Float arithmetic as numpy does it *)

NaN == <<0, 0>>
PosInf == <<1, 0>>
NegInf == <<-1, 0>>

Abs(n) == IF n < 0 THEN -n ELSE n
Sgn(n) == IF n < 0 THEN -1 ELSE IF n = 0 THEN 0 ELSE 1

RECURSIVE GCD(_, _)
GCD(a, b) == IF b = 0 THEN a ELSE GCD(b, a % b)

\* the float n / d; d = 0 gives the special of n's sign
Norm(n, d) ==
  IF d = 0 THEN <<Sgn(n), 0>>
  ELSE LET g == GCD(Abs(n), Abs(d))
       IN  <<Sgn(n) * Sgn(d) * (Abs(n) \div g), Abs(d) \div g>>

Num(n) == <<n, 1>>
IsNaN(x) == x = NaN
IsFinite(x) == x[2] # 0

FMul(a, b) == Norm(a[1] * b[1], a[2] * b[2])
FRecip(b) == Norm(b[2], b[1])
FDiv(a, b) == FMul(a, FRecip(b))
FAdd(a, b) ==
  IF a[2] = 0 /\ b[2] = 0 THEN (IF a = b THEN a ELSE NaN)
  ELSE Norm(a[1] * b[2] + b[1] * a[2], a[2] * b[2])
FSub(a, b) == FAdd(a, <<-b[1], b[2]>>)
\* x >= 0 on floats: False for NaN
FGeqZero(x) == x # NaN /\ x[1] >= 0

\* element-wise Series arithmetic (rows align by position)
SeriesDiv(a, b) == [i \in 1..Len(a) |-> FDiv(a[i], b[i])]
SeriesAdd(a, b) == [i \in 1..Len(a) |-> FAdd(a[i], b[i])]
SeriesScale(a, k) == [i \in 1..Len(a) |-> FMul(a[i], Num(k))]

----------------------------------------------------------------------------
(* Strings that the code parses or formats, as sequences of characters *)

DigitVal == [c \in {"0", "1", "2", "3", "4", "5", "6", "7", "8", "9"} |->
               CASE c = "0" -> 0 [] c = "1" -> 1 [] c = "2" -> 2 [] c = "3" -> 3
                 [] c = "4" -> 4 [] c = "5" -> 5 [] c = "6" -> 6 [] c = "7" -> 7
                 [] c = "8" -> 8 [] c = "9" -> 9]
DigitChar == <<"0", "1", "2", "3", "4", "5", "6", "7", "8", "9">>

\* int(s) of a string of decimal digits
RECURSIVE ParseInt(_)
ParseInt(s) ==
  IF s = <<>> THEN 0
  ELSE 10 * ParseInt(SubSeq(s, 1, Len(s) - 1)) + DigitVal[s[Len(s)]]

\* f"{n:0{width}d}" for n >= 0: at least width digits, zero-padded
RECURSIVE FormatInt(_, _)
FormatInt(n, width) ==
  IF n < 10 /\ width <= 1 THEN <<DigitChar[n + 1]>>
  ELSE Append(FormatInt(n \div 10, width - 1), DigitChar[(n % 10) + 1])

\* pd.to_datetime of "YYYY-MM-DD"
ToDatetime(s) ==
  <<ParseInt(SubSeq(s, 1, 4)), ParseInt(SubSeq(s, 6, 7)), ParseInt(SubSeq(s, 9, 10))>>
\* a datetime as to_csv writes it, "YYYY-MM-DD"
IsoFormat(t) ==
  FormatInt(t[1], 4) \o <<"-">> \o FormatInt(t[2], 2) \o <<"-">> \o FormatInt(t[3], 2)

\* order of datetimes
DateLess(s, t) ==
  \/ s[1] < t[1]
  \/ s[1] = t[1] /\ s[2] < t[2]
  \/ s[1] = t[1] /\ s[2] = t[2] /\ s[3] < t[3]

----------------------------------------------------------------------------
(* DataFrames and the data file *)

Columns(d) == DOMAIN d
NRows(d) == IF DOMAIN d = {} THEN 0 ELSE Len(d[CHOOSE c \in DOMAIN d : TRUE])
\* df[name] = column
SetColumn(d, name, column) ==
  [c \in DOMAIN d \cup {name} |-> IF c = name THEN column ELSE d[c]]
\* pd.to_datetime(column)
ParseDates(column) == [i \in 1..Len(column) |-> ToDatetime(column[i])]

NoFile == [exists |-> FALSE]
\* DataFrame.to_csv(index=False): a header and one record per row, dates in ISO form
ToCsv(d) ==
  [exists |-> TRUE, header |-> Columns(d),
   records |-> [i \in 1..NRows(d) |->
                  [c \in Columns(d) |->
                     IF c = "date" THEN IsoFormat(d[c][i]) ELSE d[c][i]]]]
\* pd.read_csv: the columns of the file, the date column still text
ReadCsv(f) ==
  [c \in f.header |-> [i \in 1..Len(f.records) |-> f.records[i][c]]]

Ok(d) == [kind |-> "ok", df |-> d]
Raise(exc) == [kind |-> "raise", exc |-> exc]
None == [kind |-> "None"]

----------------------------------------------------------------------------
(* Reporter: src/app.py *)

\* the shifted column of Series.shift(periods)
Shift(column, periods) ==
  [i \in 1..Len(column) |-> IF i <= periods THEN NaN ELSE column[i - periods]]

\* Series.ffill(): each missing value replaced by the last value before it
RECURSIVE Ffill(_)
Ffill(column) ==
  IF Len(column) <= 1 THEN column
  ELSE LET front == Ffill(SubSeq(column, 1, Len(column) - 1))
           last == column[Len(column)]
       IN  Append(front, IF IsNaN(last) THEN front[Len(front)] ELSE last)

\* Series.pct_change(periods, fill_method="pad"), the default of older pandas
PctChangePad(column, periods) ==
  LET filled == Ffill(column)
      shifted == Shift(filled, periods)
  IN  [i \in 1..Len(column) |-> FSub(FDiv(filled[i], shifted[i]), Num(1))]

\* Series.pct_change(periods, fill_method=None): column / column.shift(periods) - 1
PctChange(column, periods) ==
  LET shifted == Shift(column, periods)
  IN  [i \in 1..Len(column) |-> FSub(FDiv(column[i], shifted[i]), Num(1))]

\* periods=12 of the Real Wage Growth computation
Lookback == 12

\* load_data of a missing file that returns an empty table instead of raising
load_data_empty(f) ==
  IF ~f.exists THEN Ok(<<>>)
  ELSE LET d == ReadCsv(f)
       IN  IF "date" \notin Columns(d) THEN Raise("KeyError")
           ELSE Ok(SetColumn(d, "date", ParseDates(d["date"])))

load_data(f) ==
  IF ~f.exists THEN Raise("FileNotFoundError")
  ELSE LET d == ReadCsv(f)
       IN  IF "date" \notin Columns(d) THEN Raise("KeyError")
           ELSE Ok(SetColumn(d, "date", ParseDates(d["date"])))

\* the columns the try block reads
EnrichInputs ==
  {"Quits", "Layoffs", "Real Wages", "Job Openings", "Total Nonfarm Employment"}

\* the three assignments of the try block
Enrich(d) ==
  LET d1 == SetColumn(d, "Leverage Ratio", SeriesDiv(d["Quits"], d["Layoffs"]))
      d2 == SetColumn(d1, "Real Wage Growth",
                      SeriesScale(PctChange(d1["Real Wages"], Lookback), 100))
  IN  SetColumn(d2, "Job Openings Rate",
                SeriesScale(
                  SeriesDiv(d2["Job Openings"],
                            SeriesAdd(d2["Total Nonfarm Employment"], d2["Job Openings"])),
                  100))

\* Series.dropna()
DropNa(column) == SelectSeq(column, LAMBDA x : ~IsNaN(x))

\* get_latest_valid that answers a column without values with missing values
get_latest_no_default(d, col_name) ==
  LET valid_data == DropNa(d[col_name])
  IN  IF valid_data = <<>> THEN <<NaN, NaN>>
      ELSE <<valid_data[Len(valid_data)],
             IF Len(valid_data) > 1 THEN valid_data[Len(valid_data) - 1]
             ELSE valid_data[Len(valid_data)]>>

\* get_latest_valid that reads the last two rows without dropping missing values
get_latest_raw(d, col_name) ==
  LET valid_data == d[col_name]
  IN  IF valid_data = <<>> THEN <<Num(0), Num(0)>>
      ELSE <<valid_data[Len(valid_data)],
             IF Len(valid_data) > 1 THEN valid_data[Len(valid_data) - 1]
             ELSE valid_data[Len(valid_data)]>>

get_latest_valid(d, col_name) ==
  LET valid_data == DropNa(d[col_name])
  IN  IF valid_data = <<>> THEN <<Num(0), Num(0)>>
      ELSE <<valid_data[Len(valid_data)],
             IF Len(valid_data) > 1 THEN valid_data[Len(valid_data) - 1]
             ELSE valid_data[Len(valid_data)]>>

\* the columns of the four headline metrics
HeadlineColumns ==
  {"Unemployment Rate (U3)", "Underemployment Rate (U6)",
   "Total Nonfarm Employment", "Quits"}

\* lambda x: 'Positive' if x >= 0 else 'Negative'
GrowthColor(x) == IF FGeqZero(x) THEN "Positive" ELSE "Negative"

\* the try block: load and enrich, or st.error and st.stop on FileNotFoundError
RLoadEnrich ==
  /\ pc = "r_start"
  /\ LET r == load_data(file)
     IN  IF r.kind = "raise" /\ r.exc = "FileNotFoundError"
         THEN /\ rendered' = rendered \cup {"error"}
              /\ pc' = "r_stopped"
              /\ df' = df
         ELSE IF r.kind = "raise" \/ ~(EnrichInputs \subseteq Columns(r.df))
         THEN /\ pc' = "r_raised"
              /\ UNCHANGED <<rendered, df>>
         ELSE /\ df' = Ok(Enrich(r.df))
              /\ pc' = "r_enriched"
              /\ rendered' = rendered
  /\ UNCHANGED <<api, file, metrics>>

\* the four get_latest_valid calls and the four st.metric cards
RHeadline ==
  /\ pc = "r_enriched"
  /\ IF HeadlineColumns \subseteq Columns(df.df)
     THEN /\ metrics' = [c \in HeadlineColumns |-> get_latest_valid(df.df, c)]
          /\ rendered' = rendered \cup {"metrics"}
          /\ pc' = "r_metrics"
     ELSE /\ pc' = "r_raised"
          /\ UNCHANGED <<metrics, rendered>>
  /\ UNCHANGED <<api, file, df>>

\* the three tabs: the charts, and the Growth Color column added for the bar chart
RTabs ==
  /\ pc = "r_metrics"
  /\ df' = Ok(SetColumn(df.df, "Growth Color",
                        [i \in 1..NRows(df.df) |->
                           GrowthColor(df.df["Real Wage Growth"][i])]))
  /\ rendered' = rendered \cup {"tab1", "tab2", "tab3"}
  /\ pc' = "r_done"
  /\ UNCHANGED <<api, file, metrics>>

RNext == RLoadEnrich \/ RHeadline \/ RTabs

----------------------------------------------------------------------------
(* Collector: src/data_collection.py *)

SERIES_IDS ==
  <<"LNS14000000", "LNS13327709", "CES0000000001", "CES0500000003",
    "CUUR0000SA0", "JTS000000000000000JOL", "JTS000000000000000QUL",
    "JTS000000000000000LDL">>

SERIES_NAMES ==
  [id \in {SERIES_IDS[i] : i \in DOMAIN SERIES_IDS} |->
     CASE id = "LNS14000000" -> "Unemployment Rate (U3)"
       [] id = "LNS13327709" -> "Underemployment Rate (U6)"
       [] id = "CES0000000001" -> "Total Nonfarm Employment"
       [] id = "CES0500000003" -> "Avg Hourly Earnings"
       [] id = "CUUR0000SA0" -> "CPI"
       [] id = "JTS000000000000000JOL" -> "Job Openings"
       [] id = "JTS000000000000000QUL" -> "Quits"
       [] id = "JTS000000000000000LDL" -> "Layoffs"]

\* SERIES_NAMES.get(series_id, series_id)
ColName(series_id) ==
  IF series_id \in DOMAIN SERIES_NAMES THEN SERIES_NAMES[series_id] ELSE series_id

\* code points of the characters of a date string
CharCode ==
  [c \in {"-", "0", "1", "2", "3", "4", "5", "6", "7", "8", "9"} |->
     IF c = "-" THEN 45 ELSE 48 + DigitVal[c]]

\* s < t on strings
RECURSIVE StrLess(_, _)
StrLess(s, t) ==
  IF t = <<>> THEN FALSE
  ELSE IF s = <<>> THEN TRUE
  ELSE IF s[1] = t[1] THEN StrLess(Tail(s), Tail(t))
  ELSE CharCode[s[1]] < CharCode[t[1]]

\* the strings of S in ascending order
RECURSIVE SortedStrings(_)
SortedStrings(S) ==
  IF S = {} THEN <<>>
  ELSE LET m == CHOOSE x \in S : \A y \in S \ {x} : StrLess(x, y)
       IN  <<m>> \o SortedStrings(S \ {m})

\* the record of one data point of one series
Record(series_id, item) ==
  LET month == ParseInt(SelectSeq(item.period, LAMBDA c : c # "M"))
  IN  [date |-> item.year \o <<"-">> \o FormatInt(month, 2) \o <<"-", "0", "1">>,
       variable |-> ColName(series_id),
       value |-> Num(ParseInt(item.value))]

\* the records of series[1..n], in the order of the two loops
RECURSIVE Records(_, _)
Records(series, n) ==
  IF n = 0 THEN <<>>
  ELSE Records(series, n - 1) \o
       [k \in 1..Len(series[n].data) |-> Record(series[n].seriesID, series[n].data[k])]

\* DataFrame(records).pivot(index='date', columns='variable', values='value')
\*   .reset_index()
Pivot(records) ==
  LET rows == {records[i] : i \in DOMAIN records}
      index == SortedStrings({r.date : r \in rows})
      cell(dt, v) ==
        LET hits == {r \in rows : r.date = dt /\ r.variable = v}
        IN  IF hits = {} THEN NaN ELSE (CHOOSE r \in hits : TRUE).value
  IN  IF records = <<>> THEN Raise("KeyError")
      ELSE IF \E i, j \in DOMAIN records :
                i # j /\ records[i].date = records[j].date
                      /\ records[i].variable = records[j].variable
      THEN Raise("ValueError")
      ELSE Ok([c \in {"date"} \cup {r.variable : r \in rows} |->
                 IF c = "date" THEN index
                 ELSE [i \in 1..Len(index) |-> cell(index[i], c)]])

\* the rows I of a datetime column, latest first
RECURSIVE RowOrderDesc(_, _)
RowOrderDesc(column, I) ==
  IF I = {} THEN <<>>
  ELSE LET m == CHOOSE i \in I : \A j \in I \ {i} :
                  \/ DateLess(column[j], column[i])
                  \/ column[i] = column[j] /\ i < j
       IN  <<m>> \o RowOrderDesc(column, I \ {m})

\* the rows I of a datetime column, earliest first (equal dates keep their order)
RECURSIVE RowOrder(_, _)
RowOrder(column, I) ==
  IF I = {} THEN <<>>
  ELSE LET m == CHOOSE i \in I : \A j \in I \ {i} :
                  \/ DateLess(column[i], column[j])
                  \/ column[i] = column[j] /\ i < j
       IN  <<m>> \o RowOrder(column, I \ {m})

\* df.sort_values(by, ascending=False)
SortValuesDesc(d, by) ==
  LET order == RowOrderDesc(d[by], 1..NRows(d))
  IN  [c \in DOMAIN d |-> [i \in 1..NRows(d) |-> d[c][order[i]]]]

\* df.sort_values(by)
SortValues(d, by) ==
  LET order == RowOrder(d[by], 1..NRows(d))
  IN  [c \in DOMAIN d |-> [i \in 1..NRows(d) |-> d[c][order[i]]]]

\* fetch_data that returns an empty table on an API error instead of None
fetch_data_empty(response) ==
  IF response.kind = "transport_error" THEN Ok([date |-> <<>>])
  ELSE IF response.status # "REQUEST_SUCCEEDED" THEN Ok([date |-> <<>>])
  ELSE LET p == Pivot(Records(response.series, Len(response.series)))
       IN  IF p.kind = "raise" THEN p
           ELSE Ok(SortValues(
                     SetColumn(p.df, "date", ParseDates(p.df["date"])),
                     "date"))

\* fetch_data, given what requests.post meets
fetch_data(response) ==
  IF response.kind = "transport_error" THEN Raise("ConnectionError")
  ELSE IF response.status # "REQUEST_SUCCEEDED" THEN None
  ELSE LET p == Pivot(Records(response.series, Len(response.series)))
       IN  IF p.kind = "raise" THEN p
           ELSE Ok(SortValues(
                     SetColumn(p.df, "date", ParseDates(p.df["date"])),
                     "date"))

\* process_data without the scaling by 100
process_data_unscaled(d) ==
  IF "Avg Hourly Earnings" \in Columns(d) /\ "CPI" \in Columns(d)
  THEN SetColumn(d, "Real Wages", SeriesDiv(d["Avg Hourly Earnings"], d["CPI"]))
  ELSE d

process_data(d) ==
  IF "Avg Hourly Earnings" \in Columns(d) /\ "CPI" \in Columns(d)
  THEN SetColumn(d, "Real Wages",
                 SeriesScale(SeriesDiv(d["Avg Hourly Earnings"], d["CPI"]), 100))
  ELSE d

\* df = fetch_data(); an exception ends the run
CFetch ==
  /\ pc = "c_start"
  /\ LET r == fetch_data(api)
     IN  IF r.kind = "raise"
         THEN pc' = "c_raised" /\ df' = df
         ELSE pc' = "c_fetched" /\ df' = r
  /\ UNCHANGED <<api, file, metrics, rendered>>

\* if df is not None: df = process_data(df)
CProcess ==
  /\ pc = "c_fetched"
  /\ df.kind # "None"
  /\ df' = Ok(process_data(df.df))
  /\ pc' = "c_processed"
  /\ UNCHANGED <<api, file, metrics, rendered>>

\* df.to_csv(filename, index=False)
CSave ==
  /\ pc = "c_processed"
  /\ file' = ToCsv(df.df)
  /\ pc' = "c_done"
  /\ UNCHANGED <<api, df, metrics, rendered>>

\* df is None: the run ends with nothing written
CSkip ==
  /\ pc = "c_fetched"
  /\ df.kind = "None"
  /\ pc' = "c_done"
  /\ UNCHANGED <<api, file, df, metrics, rendered>>

CNext == CFetch \/ CProcess \/ CSave \/ CSkip

----------------------------------------------------------------------------
(* The runs that are checked *)

Chars(n) == FormatInt(n, 1)

\* the columns of the file a full Collector run writes
PersistedColumns ==
  {"date", "Real Wages"} \cup {SERIES_NAMES[id] : id \in DOMAIN SERIES_NAMES}

\* first day of the i-th month from January 2020, the startyear of the request
MonthDate(i) == <<2020 + ((i - 1) \div 12), ((i - 1) % 12) + 1, 1>>

\* a table of n monthly rows with every value 1
BaseTable(n) ==
  [c \in PersistedColumns |->
     IF c = "date" THEN [i \in 1..n |-> MonthDate(i)] ELSE [i \in 1..n |-> Num(1)]]

Without(d, name) == [c \in DOMAIN d \ {name} |-> d[c]]

\* BaseTable(Len(column)) with the column of that name replaced
WithColumn(d, name, column) ==
  [c \in DOMAIN d |-> IF c = name THEN column ELSE d[c]]

RatioValues == {NaN, Num(0), Num(2000), Num(4000)}
OpeningsValues == {NaN, Num(0), Num(1000), Num(9000)}
HeadlineValues == {NaN, Num(3), Num(5), Num(7)}

\* a monthly run of Real Wages 101, 102, ..., the rows of H replaced by v
WageColumn(n, H, v) == [i \in 1..n |-> IF i \in H THEN v[i] ELSE Num(100 + i)]

NoRequest == [kind |-> "none"]

\* the data file the Reporter finds: absent; a table whose Quits and Layoffs vary,
\* or whose Job Openings and Total Nonfarm Employment vary, or whose U-3 column
\* varies; a monthly table with some Real Wages missing or zero; a table that
\* lacks one column
RInit ==
  /\ pc = "r_start"
  /\ api = NoRequest
  /\ \/ file = NoFile
     \/ \E n \in 0..MaxRatioRows :
          \E q \in [1..n -> RatioValues], l \in [1..n -> RatioValues] :
            file = ToCsv(WithColumn(WithColumn(BaseTable(n), "Quits", q), "Layoffs", l))
     \/ \E n \in 0..MaxRatioRows :
          \E j \in [1..n -> OpeningsValues], e \in [1..n -> OpeningsValues] :
            file = ToCsv(WithColumn(WithColumn(BaseTable(n), "Job Openings", j),
                                    "Total Nonfarm Employment", e))
     \/ \E n \in 0..MaxLen :
          \E u \in [1..n -> HeadlineValues] :
            file = ToCsv(WithColumn(BaseTable(n), "Unemployment Rate (U3)", u))
     \/ \E n \in 0..MaxRows :
          \E H \in SUBSET (1..n) :
            /\ Cardinality(H) <= MaxHoles
            /\ \E v \in [H -> {NaN, Num(0)}] :
                 file = ToCsv(WithColumn(BaseTable(n), "Real Wages", WageColumn(n, H, v)))
     \/ \E c \in PersistedColumns : file = ToCsv(Without(BaseTable(1), c))
  /\ df = None
  /\ metrics = <<>>
  /\ rendered = {}

SpecReporter == RInit /\ [][RNext]_vars

\* the (year, period) pairs and the values of the data points of a response
DatePool ==
  {<<Chars(2020), <<"M", "0", "2">>>>, <<Chars(2020), <<"M", "1", "2">>>>,
   <<Chars(2021), <<"M", "0", "2">>>>}
ValuePool == {Chars(0), Chars(5), Chars(20)}
PointPool ==
  {[year |-> d[1], period |-> d[2], value |-> v] : d \in DatePool, v \in ValuePool}
SeriesPool == {"CES0500000003", "CUUR0000SA0", "LNS14000000"}

\* the response whose i-th series has identifier ids[i] and the points tagged i
SeriesList(ids, tagged) ==
  [i \in 1..Len(ids) |->
     [seriesID |-> ids[i],
      data |-> LET mine == SelectSeq(tagged, LAMBDA t : t[1] = i)
               IN  [k \in 1..Len(mine) |-> mine[k][2]]]]

\* the file before the run: absent, or written by an earlier run
OldFile == ToCsv(BaseTable(1))

\* what requests.post meets: a transport failure, a non-success status, or a
\* success with at most MaxSeries distinct series and MaxPoints points in all
CInit ==
  /\ pc = "c_start"
  /\ \/ api = [kind |-> "transport_error", status |-> "", message |-> "",
               series |-> <<>>]
     \/ api = [kind |-> "response", status |-> "REQUEST_NOT_PROCESSED",
               message |-> "daily threshold reached", series |-> <<>>]
     \/ \E s \in 0..MaxSeries, k \in 0..MaxPoints :
          \E ids \in [1..s -> SeriesPool], tagged \in [1..k -> (1..s) \X PointPool] :
            /\ \A i, j \in 1..s : i # j => ids[i] # ids[j]
            /\ api = [kind |-> "response", status |-> "REQUEST_SUCCEEDED",
                      message |-> "", series |-> SeriesList(ids, tagged)]
  /\ file \in {NoFile, OldFile}
  /\ df = None
  /\ metrics = <<>>
  /\ rendered = {}

SpecCollector == CInit /\ [][CNext]_vars

----------------------------------------------------------------------------
(* Properties of the Reporter, checked under SpecReporter *)

Present(column) == {i \in 1..Len(column) : column[i] # NaN}
Last(I) == CHOOSE i \in I : \A j \in I : j <= i
HeadlinesDone == pc \in {"r_metrics", "r_done"}
Enriched == pc \in {"r_enriched", "r_metrics", "r_done"}
U3 == "Unemployment Rate (U3)"

\* C1: for a column with at least one non-missing value, get_latest_valid returns
\* the last non-missing value in row order as latest, and as previous the
\* second-to-last non-missing value, or latest when there is no second one; a
\* missing value is never returned.
C1_LatestAndPrevious ==
  HeadlinesDone =>
    \A c \in HeadlineColumns :
      LET column == df.df[c]
          I == Present(column)
      IN  I # {} =>
            /\ metrics[c][1] = column[Last(I)]
            /\ metrics[c][2] = IF I \ {Last(I)} = {} THEN column[Last(I)]
                               ELSE column[Last(I \ {Last(I)})]
            /\ metrics[c][1] # NaN /\ metrics[c][2] # NaN

\* the spec's example [5.0, missing, missing, 3.0] has been answered (3.0, 5.0)
C1_Witness ==
  /\ pc = "r_metrics"
  /\ df.df[U3] = <<Num(5), NaN, NaN, Num(3)>>
  /\ metrics[U3] = <<Num(3), Num(5)>>

\* C2: for a column without a non-missing value (empty or all missing) of any
\* length, get_latest_valid returns (0, 0), and the run does not fail: a run
\* over a file that has every column never ends in an exception.
C2_NoValidValue ==
  /\ HeadlinesDone =>
       \A c \in HeadlineColumns :
         Present(df.df[c]) = {} => metrics[c] = <<Num(0), Num(0)>>
  /\ pc = "r_raised" => ~(PersistedColumns \subseteq file.header)

\* an all-missing column of two rows has been answered (0, 0)
C2_Witness ==
  /\ pc = "r_metrics"
  /\ df.df[U3] = <<NaN, NaN>>
  /\ metrics[U3] = <<Num(0), Num(0)>>

IsZero(x) == x = Num(0)

\* C5: in every derived column, a row whose denominator is zero or missing has a
\* missing result (Leverage Ratio = Quits / Layoffs; Job Openings Rate =
\* Job Openings / (Total Nonfarm Employment + Job Openings) * 100).
C5_ZeroDenominatorIsMissing ==
  Enriched =>
    \A i \in 1..NRows(df.df) :
      LET layoffs == df.df["Layoffs"][i]
          jobs == FAdd(df.df["Total Nonfarm Employment"][i], df.df["Job Openings"][i])
      IN  /\ (IsNaN(layoffs) \/ IsZero(layoffs)) => IsNaN(df.df["Leverage Ratio"][i])
          /\ (IsNaN(jobs) \/ IsZero(jobs)) => IsNaN(df.df["Job Openings Rate"][i])

\* C8: Real Wage Growth is missing for the first 12 rows and for a row whose
\* reference, Real Wages 12 rows earlier, is missing; otherwise it is the percent
\* change of Real Wages against the row 12 positions earlier, a missing value
\* being left missing and never filled from a neighbouring row.
C8_RealWageGrowth ==
  Enriched =>
    LET wages == df.df["Real Wages"]
        growth == df.df["Real Wage Growth"]
    IN  /\ Len(growth) = Len(wages)
        /\ \A i \in 1..Len(wages) :
             IF i <= 12 THEN IsNaN(growth[i])
             ELSE LET cur == wages[i]
                      ref == wages[i - 12]
                  IN  /\ IsNaN(ref) => IsNaN(growth[i])
                      /\ IsNaN(cur) => IsNaN(growth[i])
                      /\ (IsFinite(cur) /\ IsFinite(ref) /\ ref[1] # 0) =>
                           /\ IsFinite(growth[i])
                           /\ growth[i][1] * cur[2] * ref[1] =
                                growth[i][2] * 100 * (cur[1] * ref[2] - ref[1] * cur[2])

\* in a table of 14 rows whose first row is missing, row 13 has no growth and
\* row 14 has the growth of 114 against 102
C8_Witness ==
  /\ pc = "r_enriched"
  /\ Len(df.df["Real Wages"]) = 14
  /\ IsNaN(df.df["Real Wages"][1])
  /\ IsNaN(df.df["Real Wage Growth"][13])
  /\ df.df["Real Wage Growth"][14] = <<200, 17>>

----------------------------------------------------------------------------
(* Properties of the Collector, checked under SpecCollector *)

FetchFails == api.kind = "transport_error" \/ api.status # "REQUEST_SUCCEEDED"
Succeeded == api.kind = "response" /\ api.status = "REQUEST_SUCCEEDED"
HasTable == pc \in {"c_fetched", "c_processed", "c_done"} /\ df.kind = "ok"

\* C3: in a run whose fetch fails (a non-success status, or a transport
\* failure) no step writes the data file, and no table is built.
C3_FailedFetchWritesNothing ==
  [][FetchFails => /\ file' = file
                   /\ df'.kind = "None"
                   /\ pc' \in {"c_raised", "c_fetched", "c_done"}]_vars

\* a run that met a non-success status has ended, the earlier file still there
C3_Witness ==
  /\ api.kind = "response" /\ api.status # "REQUEST_SUCCEEDED"
  /\ pc = "c_done"
  /\ file = OldFile

\* the points of a response, each with the identifier of its series
Points(response) ==
  UNION {{<<response.series[i].seriesID, response.series[i].data[k]>> :
            k \in DOMAIN response.series[i].data} :
         i \in DOMAIN response.series}
\* no series has two points of one (year, period)
WellFormed(response) ==
  \A i \in DOMAIN response.series :
    \A k, l \in DOMAIN response.series[i].data :
      k # l => <<response.series[i].data[k].year, response.series[i].data[k].period>>
               # <<response.series[i].data[l].year, response.series[i].data[l].period>>
\* the month of each period code
MonthOfPeriod(period) ==
  CASE period = <<"M", "0", "1">> -> 1 [] period = <<"M", "0", "2">> -> 2
    [] period = <<"M", "0", "3">> -> 3 [] period = <<"M", "0", "4">> -> 4
    [] period = <<"M", "0", "5">> -> 5 [] period = <<"M", "0", "6">> -> 6
    [] period = <<"M", "0", "7">> -> 7 [] period = <<"M", "0", "8">> -> 8
    [] period = <<"M", "0", "9">> -> 9 [] period = <<"M", "1", "0">> -> 10
    [] period = <<"M", "1", "1">> -> 11 [] period = <<"M", "1", "2">> -> 12
\* the first day of the month a (year, period) pair encodes
PeriodDate(year, period) == <<ParseInt(year), MonthOfPeriod(period), 1>>

\* C6: for a well-formed response, reshape produces one row per distinct
\* (year, period) pair and one column per distinct series identifier, the cell at
\* (date, series) holding the series' value for that date, or missing.
C6_Reshape ==
  (Succeeded /\ WellFormed(api) /\ pc # "c_start") =>
    /\ HasTable
    /\ LET d == df.df
           P == Points(api)
           dates == {PeriodDate(p[2].year, p[2].period) : p \in P}
       IN  /\ Columns(d) \ {"date", "Real Wages"} =
                {SERIES_NAMES[api.series[i].seriesID] : i \in DOMAIN api.series}
           /\ Cardinality(dates) = NRows(d)
           /\ {d["date"][i] : i \in 1..NRows(d)} = dates
           /\ \A i \in 1..NRows(d) : \A c \in Columns(d) \ {"date", "Real Wages"} :
                LET hits == {p \in P : /\ SERIES_NAMES[p[1]] = c
                                       /\ PeriodDate(p[2].year, p[2].period) = d["date"][i]}
                IN  IF hits = {} THEN IsNaN(d[c][i])
                    ELSE \E p \in hits : d[c][i] = Num(ParseInt(p[2].value))

\* C7: process_data adds Real Wages = Avg Hourly Earnings / CPI * 100, row by
\* row, only when both columns are present, and otherwise returns the table as it
\* was; every column the table had is left as it was.
C7_DeriveRealWages ==
  [][(pc = "c_fetched" /\ pc' = "c_processed") =>
       LET d == df.df
           e == df'.df
       IN  /\ \A c \in Columns(d) : e[c] = d[c]
           /\ IF {"Avg Hourly Earnings", "CPI"} \subseteq Columns(d)
              THEN /\ Columns(e) = Columns(d) \cup {"Real Wages"}
                   /\ Len(e["Real Wages"]) = NRows(d)
                   /\ \A i \in 1..NRows(d) :
                        LET a == d["Avg Hourly Earnings"][i]
                            c == d["CPI"][i]
                            r == e["Real Wages"][i]
                        IN  /\ (IsNaN(a) \/ IsNaN(c)) => IsNaN(r)
                            /\ (IsFinite(a) /\ IsFinite(c) /\ c[1] # 0) =>
                                 /\ IsFinite(r)
                                 /\ r[1] * a[2] * c[1] = r[2] * 100 * a[1] * c[2]
              ELSE e = d]_vars

\* earnings 5 over CPI 20 have given Real Wages 25
C7_Witness ==
  /\ pc = "c_processed"
  /\ "Real Wages" \in Columns(df.df)
  /\ \E i \in 1..NRows(df.df) :
       /\ df.df["Avg Hourly Earnings"][i] = Num(5)
       /\ df.df["CPI"][i] = Num(20)
       /\ df.df["Real Wages"][i] = Num(25)

NoPoints == \A i \in DOMAIN api.series : api.series[i].data = <<>>

\* C9: when the API reports success with no series, or no data point in any
\* series, the run does not fail and writes a header-only file.
C9_EmptyResponse ==
  (Succeeded /\ NoPoints) =>
    /\ pc # "c_raised"
    /\ pc = "c_done" => file.exists /\ file.records = <<>>

StrictlyIncreasing(dates) ==
  \A i \in 1..Len(dates) - 1 : DateLess(dates[i], dates[i + 1])

\* C10: every table the Collector returns and persists has its rows in strictly
\* increasing date order, whatever the order of the series and the data points.
C10_RowsIncreaseByDate ==
  HasTable =>
    /\ StrictlyIncreasing(df.df["date"])
    /\ pc = "c_done" =>
         StrictlyIncreasing([i \in 1..Len(file.records) |->
                               ToDatetime(file.records[i]["date"])])

\* a series whose points came latest first has been written earliest first
C10_Witness ==
  /\ pc = "c_done"
  /\ Len(api.series) >= 1
  /\ Len(api.series[1].data) = 2
  /\ api.series[1].data[1].year = Chars(2021)
  /\ df.df["date"] = <<<<2020, 12, 1>>, <<2021, 2, 1>>>>
  /\ Len(file.records) = 2

====
